---- MODULE Spec2Model ----
(***************************************************************************)
(* Model of chibios.py: the gdb helper commands "chibios threads" and      *)
(* "chibios thread".  Target memory is a function from thread-control-     *)
(* block addresses to their fields; an address outside its domain is       *)
(* unmapped and every read through it raises gdb.MemoryError.              *)
(***************************************************************************)
EXTENDS Integers, Sequences, FiniteSets

VARIABLES keys,      \* gdb.lookup_type('Thread').keys(): field names of the Thread struct
          mem,       \* target memory: address -> Thread fields (0 is &rlist)
          selected,  \* gdb.selected_thread(): None or the ptid[2] of the thread
          pc,        \* position of the running command
          newer,     \* local 'newer' of ChibiosThreadsCommand.invoke
          older,     \* local 'older' of ChibiosThreadsCommand.invoke
          out,       \* lines printed so far
          err,       \* exception that ended the command ("" when none)
          threads,   \* ChibiosThread objects constructed so far, in order
          reads,     \* <<address, field>> reads made on the target so far
          iter       \* parity of the number of iterations of the while loop begun

vars == <<keys, mem, selected, pc, newer, older, out, err, threads, reads, iter>>

----------------------------------------------------------------------------
(* Bounds *)

NumNodes == 3     \* largest number of threads in a registry
MaxStack == 8     \* largest stack region, in bytes
MaxRows  == NumNodes + 2   \* lines kept of the output of a walk that does not end

----------------------------------------------------------------------------
(* Target values *)

rlist    == 0     \* the address of the registry anchor, &rlist
Unmapped == -1    \* an address no memory is mapped at
None     == -2    \* gdb.selected_thread() returning None
FILL     == 85    \* 'U', 0x55
OtherByte == 0    \* a stack byte that is not the fill byte

LinkKeys      == {"p_newer", "p_older"}
OptionalKeys  == {"p_stklimit", "p_time"}
MandatoryKeys == {"p_ctx", "p_name", "p_state", "p_flags", "p_prio", "p_refs"}

THREAD_STATE == <<"READY", "CURRENT", "SUSPENDED", "WTSEM", "WTMTX", "WTCOND",
                  "SLEEPING", "WTEXIT", "WTOREVT", "WTANDEVT", "SNDMSGQ",
                  "SNDMSG", "WTMSG", "WTQUEUE", "FINAL">>

\* Stack base of the thread at address a; the stack is [StackBase, r13).
StackBase(a) == 32 * a

RECURSIVE SeqsUpTo(_, _)
SeqsUpTo(S, k) ==
    IF k = 0 THEN {<<>>}
    ELSE LET shorter == SeqsUpTo(S, k - 1)
         IN  shorter \cup {Append(s, b) : s \in {x \in shorter : Len(x) = k - 1}, b \in S}

----------------------------------------------------------------------------
(* ChibiosThread *)

\* Index of the first element that is not 'U'; the for-else gives 0.
RECURSIVE FirstNonFill(_, _)
FirstNonFill(stack, i) ==
    IF i > Len(stack) THEN 0
    ELSE IF stack[i] # FILL THEN i - 1
    ELSE FirstNonFill(stack, i + 1)

StackScanWhole(stack) ==
    IF \A j \in 1..Len(stack) : stack[j] = FILL THEN Len(stack)
    ELSE FirstNonFill(stack, 1)

\* for i, each in enumerate(stack): ... else: ...
StackScan(stack) == FirstNonFill(stack, 1)

HasStackAlways(stklimit) == TRUE

\* if self._stklimit > 0
HasStack(stklimit) == stklimit > 0

\* inf.read_memory(address, size): the thread's stack [r13 - Len(stack), r13)
\* is the only memory its scan can find mapped, and only when it is readable.
read_memory(t, address, size) ==
    IF t.readable /\ address = t.r13 - Len(t.stack) /\ size \in 0..Len(t.stack)
    THEN [raised |-> FALSE, bytes |-> SubSeq(t.stack, 1, size)]
    ELSE [raised |-> TRUE, bytes |-> <<>>]

TryScanUncaught(t, address, size) ==
    LET r == read_memory(t, address, size)
    IN  IF r.raised THEN [raised |-> TRUE, unused |-> 0]
        ELSE [raised |-> FALSE, unused |-> StackScan(r.bytes)]

\* try: ... except gdb.MemoryError: self._stack_unused = 0
TryScan(t, address, size) ==
    LET r == read_memory(t, address, size)
    IN  IF r.raised THEN [raised |-> FALSE, unused |-> 0]
        ELSE [raised |-> FALSE, unused |-> StackScan(r.bytes)]

NoThread == [address |-> Unmapped, stklimit |-> 0, r13 |-> 0, stack_size |-> 0,
             stack_unused |-> 0, name |-> "<no name>", state |-> 0,
             flags |-> 0, prio |-> 0, refs |-> 0, time |-> 0]

\* ChibiosThread.__init__ on the Thread at address a: the exception it
\* raises ("" when none), the object built and the target reads it makes.
ChibiosThread(k, m, a) ==
    IF a \notin DOMAIN m
    THEN [exc |-> "MemoryError", obj |-> NoThread, reads |-> {<<a, "p_ctx">>}]
    ELSE
    LET t        == m[a]
        r13      == t.r13
        stklimit == IF "p_stklimit" \in k THEN t.p_stklimit ELSE 0
        size     == IF HasStack(stklimit) THEN r13 - stklimit ELSE 0
        scan     == IF HasStack(stklimit) THEN TryScan(t, stklimit, size)
                    ELSE [raised |-> FALSE, unused |-> 0]
        rd0      == {<<a, "p_ctx">>}
                    \cup (IF "p_stklimit" \in k THEN {<<a, "p_stklimit">>} ELSE {})
                    \cup (IF HasStack(stklimit) THEN {<<a, "memory">>} ELSE {})
        rd1      == rd0 \cup {<<a, "p_name">>, <<a, "p_state">>, <<a, "p_flags">>,
                              <<a, "p_prio">>, <<a, "p_refs">>}
                    \cup (IF "p_time" \in k THEN {<<a, "p_time">>} ELSE {})
    IN  IF scan.raised
        THEN [exc |-> "MemoryError", obj |-> NoThread, reads |-> rd0]
        ELSE [exc |-> "",
              obj |-> [address      |-> a,
                       stklimit     |-> stklimit,
                       r13          |-> r13,
                       stack_size   |-> size,
                       stack_unused |-> scan.unused,
                       name         |-> IF t.p_name # "" THEN t.p_name ELSE "<no name>",
                       state        |-> t.p_state,
                       flags        |-> t.p_flags,
                       prio         |-> t.p_prio,
                       refs         |-> t.p_refs,
                       time         |-> IF "p_time" \in k THEN t.p_time ELSE 0],
              reads |-> rd1]

\* ChibiosThread.THREAD_STATE[self.state], a Python list index: a negative
\* index counts from the end, an index outside -15..14 raises IndexError.
state_str(state) ==
    IF state >= 0 /\ state < Len(THREAD_STATE)
    THEN [raised |-> FALSE, str |-> THREAD_STATE[state + 1]]
    ELSE IF state < 0 /\ state >= -Len(THREAD_STATE)
    THEN [raised |-> FALSE, str |-> THREAD_STATE[Len(THREAD_STATE) + state + 1]]
    ELSE [raised |-> TRUE, str |-> ""]

\* THREAD_INFO_FORMAT.format(thread=ch_thread): the columns of one row.
THREAD_INFO_FORMAT(o) ==
    [raised |-> state_str(o.state).raised,
     row    |-> [address      |-> o.address,
                 stack_limit  |-> o.stklimit,
                 stack_start  |-> o.r13,
                 stack_unused |-> o.stack_unused,
                 stack_size   |-> o.stack_size,
                 name         |-> o.name,
                 state_str    |-> state_str(o.state).str]]

Line(kind)   == [kind |-> kind, row |-> <<>>]
RowLine(row) == [kind |-> "row", row |-> <<row>>]

THREAD_INFO_HEADER_FORMAT == Line("header")

\* Appending to the output or to the objects built: of a walk that never
\* ends, the first MaxRows rows are kept (two warnings and the header come
\* first); the walk itself goes on, and iter tells its iterations apart.
Keep(s, x) == IF Len(s) < MaxRows + 3 THEN Append(s, x) ELSE s

\* ch_thread = ChibiosThread(<Thread at a>); print THREAD_INFO_FORMAT.format(...)
\* after output o: the exception raised ("" when none) and the output,
\* objects and reads after it.
ExtractAndShow(a, o) ==
    LET ct  == ChibiosThread(keys, mem, a)
        fmt == THREAD_INFO_FORMAT(ct.obj)
    IN  IF ct.exc # ""
        THEN [exc |-> ct.exc, out |-> o, threads |-> threads,
              reads |-> reads \cup ct.reads]
        ELSE IF fmt.raised
        THEN [exc |-> "IndexError", out |-> o, threads |-> Keep(threads, ct.obj),
              reads |-> reads \cup ct.reads]
        ELSE [exc |-> "", out |-> Keep(o, RowLine(fmt.row)),
              threads |-> Keep(threads, ct.obj), reads |-> reads \cup ct.reads]

----------------------------------------------------------------------------
(* chibios thread *)

NoThreadsFound == Line("No threads found--run info threads first")

ChibiosThreadCommand_invoke_eager ==
    /\ pc = "start"
    /\ LET shown == ExtractAndShow(IF selected = None THEN 1 ELSE selected,
                                   Keep(out, THREAD_INFO_HEADER_FORMAT))
       IN  /\ out' = shown.out
           /\ threads' = shown.threads
           /\ reads' = shown.reads
           /\ err' = shown.exc
           /\ pc' = IF shown.exc = "" THEN "done" ELSE "error"
    /\ UNCHANGED <<keys, mem, selected, newer, older, iter>>

ChibiosThreadCommand_invoke ==
    /\ pc = "start"
    /\ IF selected # None
       THEN LET shown == ExtractAndShow(selected, Keep(out, THREAD_INFO_HEADER_FORMAT))
            IN  /\ out' = shown.out
                /\ threads' = shown.threads
                /\ reads' = shown.reads
                /\ err' = shown.exc
                /\ pc' = IF shown.exc = "" THEN "done" ELSE "error"
       ELSE /\ out' = Keep(out, NoThreadsFound)
            /\ pc' = "done"
            /\ UNCHANGED <<threads, reads, err>>
    /\ UNCHANGED <<keys, mem, selected, newer, older, iter>>

----------------------------------------------------------------------------
(* chibios threads *)

RegistryNotEnabled == "ChibiOS/RT thread registry not enabled, cannot access thread information!"
RlistInvalid       == "Rlist pointer invalid--corrupt list?"

sanity_check_newer_only(k) ==
    IF "p_newer" \notin k
    THEN [raised |-> TRUE, warnings |-> <<>>]
    ELSE [raised |-> FALSE,
          warnings |-> (IF "p_stklimit" \notin k THEN <<Line("No p_stklimit")>> ELSE <<>>)
                       \o (IF "p_time" \notin k THEN <<Line("No p_time")>> ELSE <<>>)]

\* ChibiosThread.sanity_check(): raises GdbError, or prints its warnings.
sanity_check(k) ==
    IF "p_newer" \notin k \/ "p_older" \notin k
    THEN [raised |-> TRUE, warnings |-> <<>>]
    ELSE [raised |-> FALSE,
          warnings |-> (IF "p_stklimit" \notin k THEN <<Line("No p_stklimit")>> ELSE <<>>)
                       \o (IF "p_time" \notin k THEN <<Line("No p_time")>> ELSE <<>>)]

WhileCondAlways(cursor) == TRUE

\* while (newer != rlist_as_thread)
WhileCond(cursor) == cursor # rlist

FollowOlder(m, cursor) == m[cursor].p_older

\* newer.dereference()['p_newer']
FollowNewer(m, cursor) == m[cursor].p_newer

\* lines 176-184: the schema check, the anchor's links and the header
ChibiosThreadsCommand_invoke ==
    /\ pc = "start"
    /\ LET sc == sanity_check(keys)
       IN  IF sc.raised
           THEN /\ pc' = "error"
                /\ err' = RegistryNotEnabled
                /\ UNCHANGED <<out, newer, older, reads>>
           ELSE /\ out' = out \o sc.warnings \o <<THREAD_INFO_HEADER_FORMAT>>
                /\ newer' = FollowNewer(mem, rlist)
                /\ older' = mem[rlist].p_older
                /\ reads' = reads \cup {<<rlist, "p_newer">>, <<rlist, "p_older">>}
                /\ pc' = "while"
                /\ UNCHANGED err
    /\ UNCHANGED <<keys, mem, selected, threads, iter>>

\* lines 185-194: one iteration of the while loop
ChibiosThreadsCommand_while ==
    /\ pc = "while"
    /\ WhileCond(newer)
    /\ iter' = 1 - iter
    /\ LET shown   == ExtractAndShow(newer, out)
           current == newer
       IN  /\ out' = shown.out
           /\ threads' = shown.threads
           /\ IF shown.exc # ""
              THEN /\ pc' = "error"
                   /\ err' = shown.exc
                   /\ reads' = shown.reads
                   /\ UNCHANGED <<newer, older>>
              ELSE LET next == FollowNewer(mem, current)
                   IN  /\ newer' = next
                       /\ reads' = shown.reads \cup {<<current, "p_newer">>, <<next, "p_older">>}
                       /\ IF next \notin DOMAIN mem
                          THEN /\ pc' = "error"
                               /\ err' = "MemoryError"
                               /\ UNCHANGED older
                          ELSE /\ older' = mem[next].p_older
                               /\ IF mem[next].p_older # current
                                  THEN /\ pc' = "error"
                                       /\ err' = RlistInvalid
                                  ELSE /\ pc' = "while"
                                       /\ UNCHANGED err
    /\ UNCHANGED <<keys, mem, selected>>

\* the loop ends: newer == rlist_as_thread
ChibiosThreadsCommand_return ==
    /\ pc = "while"
    /\ ~WhileCond(newer)
    /\ pc' = "done"
    /\ UNCHANGED <<keys, mem, selected, newer, older, out, err, threads, reads, iter>>

----------------------------------------------------------------------------
(* Targets *)

Schemas == {MandatoryKeys \cup s : s \in SUBSET (LinkKeys \cup OptionalKeys)}

\* A healthy thread at address a of a registry of n threads: a bytes of its
\* stack still hold the fill byte.
Tcb(a, n) ==
    [p_newer    |-> (a + 1) % (n + 1),
     p_older    |-> (a + n) % (n + 1),
     r13        |-> StackBase(a) + a + 1,
     p_stklimit |-> StackBase(a),
     stack      |-> [i \in 1..(a + 1) |-> IF i <= a THEN FILL ELSE OtherByte],
     readable   |-> TRUE,
     p_name     |-> IF a = 2 THEN "" ELSE "thd",
     p_state    |-> (a + 13) % 15,
     p_flags    |-> a,
     p_prio     |-> 64 + a,
     p_refs     |-> 1,
     p_time     |-> 10 * a]

\* The circular list rlist -> 1 -> ... -> n -> rlist, with consistent links.
Ring(n) == [a \in 0..n |-> Tcb(a, n)]

Pointers(n) == (0..n) \cup {Unmapped}

BadOrdinals == {-16, -1, 15}

\* What may be wrong with one thread: its state ordinal or its stack's memory.
Faults == {[readable |-> FALSE, p_state |-> 0]}
          \cup {[readable |-> TRUE, p_state |-> s] : s \in BadOrdinals}

\* A registry of at most NumNodes threads in which at most one 'newer' link,
\* one 'older' link and one thread are wrong.
Registries ==
    UNION {
      LET ring == Ring(n)
          r1s  == {ring} \cup {[ring EXCEPT ![a].p_newer = v] : a \in 0..n, v \in Pointers(n)}
          r2s  == UNION {{r} \cup {[r EXCEPT ![a].p_older = v] : a \in 0..n, v \in Pointers(n)}
                         : r \in r1s}
      IN  UNION {{r} \cup {[r EXCEPT ![a].readable = f.readable, ![a].p_state = f.p_state]
                             : a \in 1..n, f \in Faults}
                 : r \in r2s}
      : n \in 0..NumNodes}

\* The threads 'chibios thread' is tried on: every stack content up to
\* MaxStack bytes, and every state ordinal around the table.
StackTcbs ==
    {[Tcb(1, 1) EXCEPT !.stack = st, !.r13 = StackBase(1) + Len(st),
                       !.p_stklimit = lim, !.readable = rd, !.p_name = nm]
       : st \in SeqsUpTo({FILL, OtherByte}, MaxStack) \ {<<>>},
         lim \in {0, StackBase(1)}, rd \in BOOLEAN, nm \in {"", "main"}}

StateTcbs ==
    {[Tcb(1, 1) EXCEPT !.p_state = s, !.p_stklimit = lim]
       : s \in (-Len(THREAD_STATE) - 2)..(Len(THREAD_STATE) + 2), lim \in {0, StackBase(1)}}

CommonInit ==
    /\ pc = "start"
    /\ newer = rlist
    /\ older = rlist
    /\ out = <<>>
    /\ err = ""
    /\ threads = <<>>
    /\ reads = {}
    /\ iter = 0

\* 'chibios threads' on any registry
Init ==
    /\ keys \in Schemas
    /\ mem \in Registries
    /\ selected = None
    /\ CommonInit

Next ==
    \/ ChibiosThreadsCommand_invoke
    \/ ChibiosThreadsCommand_while
    \/ ChibiosThreadsCommand_return

Spec == Init /\ [][Next]_vars

\* The command runs to completion once invoked.
FairInit ==
    /\ keys = MandatoryKeys \cup LinkKeys \cup OptionalKeys
    /\ mem \in {r \in Registries : \A a \in DOMAIN r : r[a].readable /\ r[a].p_state \in 0..14}
    /\ selected = None
    /\ CommonInit

FairSpec == FairInit /\ [][Next]_vars /\ WF_vars(Next)

\* 'chibios thread' on one thread
ThreadInit ==
    /\ keys \in {MandatoryKeys \cup LinkKeys \cup s : s \in SUBSET OptionalKeys}
    /\ \E t \in StackTcbs \cup StateTcbs : mem = [Ring(1) EXCEPT ![1] = t]
    /\ selected \in {None, 1, Unmapped}
    /\ CommonInit

ThreadNext == ChibiosThreadCommand_invoke

ThreadSpec == ThreadInit /\ [][ThreadNext]_vars

----------------------------------------------------------------------------
(* Properties *)

IsRow(l) == l.kind = "row"

\* The rows printed so far, and the addresses they show.
Rows == SelectSeq(out, IsRow)
RowAddrs == [i \in 1..Len(Rows) |-> Rows[i].row[1].address]
ThreadAddrs == [i \in 1..Len(threads) |-> threads[i].address]

\* Number of thread nodes in target memory.
N == Cardinality(DOMAIN mem) - 1

\* The node i 'newer' links away from the anchor.
RECURSIVE NthNewer(_, _)
NthNewer(m, i) ==
    IF i = 0 THEN rlist
    ELSE LET p == NthNewer(m, i - 1)
         IN  IF p \in DOMAIN m THEN m[p].p_newer ELSE Unmapped

\* Every node's 'older' link points to the node whose 'newer' link reaches it.
Consistent(m) ==
    \A a \in DOMAIN m : /\ m[a].p_newer \in DOMAIN m
                        /\ m[m[a].p_newer].p_older = a

\* Every node is on the list that starts at the anchor.
SingleList(m) == {NthNewer(m, i) : i \in 0..(Cardinality(DOMAIN m) - 1)} = DOMAIN m

AllValid(m) == \A a \in DOMAIN m \ {rlist} : m[a].p_state \in 0..(Len(THREAD_STATE) - 1)

LinksPresent == LinkKeys \subseteq keys

Healthy == LinksPresent /\ Consistent(mem) /\ SingleList(mem) /\ AllValid(mem)

\* C1: on a registry of N thread nodes with consistent links the walk emits
\* exactly N snapshots, one per node, in 'newer' order from the anchor's
\* 'newer' node, never the anchor, never a node twice, and ends normally
\* with the cursor on the anchor.
C1_WalkVisitsEachNodeOnce ==
    (Healthy /\ pc # "start") =>
        /\ pc \in {"while", "done"}
        /\ Len(Rows) <= N
        /\ RowAddrs = [i \in 1..Len(Rows) |-> NthNewer(mem, i)]
        /\ ThreadAddrs = RowAddrs
        /\ \A i \in 1..Len(Rows) : RowAddrs[i] # rlist
        /\ \A i, j \in 1..Len(Rows) : i # j => RowAddrs[i] # RowAddrs[j]
        /\ (newer = rlist) = (Len(Rows) = N)
        /\ pc = "done" => (newer = rlist /\ Len(Rows) = N)

C1_Witness == Healthy /\ pc = "done" /\ N >= 2 /\ Len(Rows) = N

\* The links are consistent except that the 'older' link of the k-th node
\* does not point back to the node just left.
OlderBrokenAt(m, k) ==
    LET node == NthNewer(m, k)
        left == NthNewer(m, k - 1)
    IN  /\ node \in DOMAIN m \ {rlist}
        /\ m[node].p_older # left
        /\ Consistent([m EXCEPT ![node].p_older = left])
        /\ SingleList(m)

\* C2: when the 'older' link of the k-th node is broken, the walk aborts
\* with the list-corruption error after emitting exactly the snapshots of
\* nodes 1..k-1.
C2_AbortsAtBrokenNode ==
    \A k \in 1..N :
        (LinksPresent /\ AllValid(mem) /\ OlderBrokenAt(mem, k)) =>
            /\ Len(Rows) <= k - 1
            /\ pc # "done"
            /\ pc = "error" => (err = RlistInvalid /\ Len(Rows) = k - 1)

\* C3 as stated: no run prints the header and some rows and then ends in an
\* error; a run that ends normally has printed every row.
C3_AllOrNothing ==
    /\ pc = "error" => Rows = <<>>
    /\ pc = "done" => /\ RowAddrs = [i \in 1..Len(Rows) |-> NthNewer(mem, i)]
                      /\ NthNewer(mem, Len(Rows) + 1) = rlist

\* C3, amended: the output is the warnings, the header, then the rows of
\* the nodes reached so far in 'newer' order; a run that ends normally has a
\* row for every node up to the return to the anchor; a run that ends in
\* the registry-unavailable error has printed nothing; a run that ends in
\* another error keeps the header and the rows printed before the failure.
C3_PrefixThenError ==
    pc # "start" =>
        IF err = RegistryNotEnabled
        THEN pc = "error" /\ out = <<>>
        ELSE /\ out = sanity_check(keys).warnings \o <<THREAD_INFO_HEADER_FORMAT>> \o Rows
             /\ RowAddrs = [i \in 1..Len(Rows) |-> NthNewer(mem, i)]
             /\ \A i \in 1..Len(Rows) : RowAddrs[i] # rlist
             /\ pc = "done" => NthNewer(mem, Len(Rows) + 1) = rlist

C3_Witness == pc = "error" /\ err = "IndexError" /\ Len(Rows) >= 1

\* C4: the walk eventually stops, normally or with an error, whatever the
\* 'newer' and 'older' pointers of the nodes are.
C4_WalkTerminates == <>(pc \in {"done", "error"})

AllFill(stack) == \A j \in 1..Len(stack) : stack[j] = FILL

\* C5: with a positive stack limit and a readable stack, stack_size is
\* stack_top - stack_limit and stack_unused is the index of the first byte,
\* from the low address upward, that is not the fill byte; 0 when every
\* byte is the fill byte.
C5_FillScan ==
    (pc # "start" /\ selected = 1 /\ "p_stklimit" \in keys
       /\ mem[1].p_stklimit > 0 /\ mem[1].readable) =>
        /\ Len(threads) = 1
        /\ LET o  == threads[1]
               st == mem[1].stack
           IN  /\ o.stack_size = mem[1].r13 - mem[1].p_stklimit
               /\ o.stack_size = Len(st)
               /\ o.stack_unused \in 0..(Len(st) - 1)
               /\ AllFill(st) => o.stack_unused = 0
               /\ ~AllFill(st) => /\ st[o.stack_unused + 1] # FILL
                                  /\ \A j \in 1..o.stack_unused : st[j] = FILL
               /\ \A r \in 1..Len(Rows) : /\ Rows[r].row[1].stack_unused = o.stack_unused
                                          /\ Rows[r].row[1].stack_size = o.stack_size

C5_Witness ==
    /\ pc = "done" /\ selected = 1 /\ Len(threads) = 1
    /\ mem[1].stack = <<FILL, FILL, FILL, FILL, FILL, FILL, FILL, OtherByte>>
    /\ threads[1].stack_unused = 7
    /\ threads[1].stack_size = 8

\* C6: when the stack-limit field is absent or its value is not positive,
\* stack_size and stack_unused are 0 whatever the stack pointer is, and the
\* stack's memory is not read.
C6_NoLimitNoScan ==
    (pc # "start" /\ selected = 1
       /\ ("p_stklimit" \notin keys \/ mem[1].p_stklimit <= 0)) =>
        /\ Len(threads) = 1
        /\ threads[1].stack_size = 0
        /\ threads[1].stack_unused = 0
        /\ threads[1].r13 = mem[1].r13
        /\ <<1, "memory">> \notin reads
        /\ \A r \in 1..Len(Rows) : /\ Rows[r].row[1].stack_unused = 0
                                   /\ Rows[r].row[1].stack_size = 0

C6_Witness ==
    /\ pc = "done" /\ selected = 1 /\ "p_stklimit" \notin keys
    /\ mem[1].p_stklimit > 0 /\ mem[1].readable
    /\ Len(mem[1].stack) >= 2 /\ mem[1].stack[1] = FILL /\ mem[1].stack[2] # FILL
    /\ Len(Rows) = 1 /\ Rows[1].row[1].stack_size = 0

\* C7: a state ordinal in 0..14 gives the table entry at that index; an
\* ordinal outside 0..14 (15, larger, negative) fails with an error and no
\* row shows a state for it.
C7_StateValidated ==
    (pc # "start" /\ selected = 1) =>
        LET s == mem[1].p_state
        IN  IF s \in 0..(Len(THREAD_STATE) - 1)
            THEN /\ pc = "done"
                 /\ Len(Rows) = 1
                 /\ Rows[1].row[1].state_str = THREAD_STATE[s + 1]
            ELSE /\ pc = "error"
                 /\ Rows = <<>>

\* C8: a failed read of a node's stack leaves that node's snapshot with
\* stack_unused = 0 and its other fields as read, and the walk goes on to
\* emit every later node.
C8_ScanFailureAbsorbed ==
    (Healthy /\ pc # "start") =>
        /\ pc # "error"
        /\ pc = "done" => Len(threads) = N
        /\ \A i \in 1..Len(threads) :
              LET a == NthNewer(mem, i)
                  t == mem[a]
                  o == threads[i]
              IN  ~t.readable =>
                    /\ o.stack_unused = 0
                    /\ o.address = a
                    /\ o.name = (IF t.p_name = "" THEN "<no name>" ELSE t.p_name)
                    /\ o.state = t.p_state
                    /\ o.flags = t.p_flags
                    /\ o.prio = t.p_prio
                    /\ o.refs = t.p_refs
                    /\ Rows[i].row[1].stack_unused = 0
                    /\ Rows[i].row[1].address = a

C8_Witness ==
    /\ Healthy /\ pc = "done" /\ "p_stklimit" \in keys
    /\ N >= 2 /\ ~mem[1].readable
    /\ Len(Rows) = N /\ Rows[1].row[1].stack_unused = 0 /\ Rows[1].row[1].stack_size > 0

\* C9: without the 'newer' or the 'older' link field the command fails with
\* the registry error before the anchor is read and before anything is
\* printed; with both, a missing stack-limit or scheduled-time field only
\* prints a warning before the header and the walk runs.
C9_SchemaCheckFirst ==
    pc # "start" =>
        IF ~LinksPresent
        THEN /\ pc = "error"
             /\ err = RegistryNotEnabled
             /\ out = <<>>
             /\ reads = {}
             /\ threads = <<>>
        ELSE /\ err # RegistryNotEnabled
             /\ <<rlist, "p_newer">> \in reads
             /\ LET w == (IF "p_stklimit" \in keys THEN 0 ELSE 1)
                         + (IF "p_time" \in keys THEN 0 ELSE 1)
                IN  /\ Len(out) >= w + 1
                    /\ out[w + 1] = THREAD_INFO_HEADER_FORMAT
                    /\ \A i \in 1..w : out[i].kind \in {"No p_stklimit", "No p_time"}
                    /\ \A i \in (w + 2)..Len(out) : out[i].kind = "row"
                    /\ ("p_stklimit" \notin keys) => out[1].kind = "No p_stklimit"
                    /\ ("p_time" \notin keys) => out[w].kind = "No p_time"

C9_Witness ==
    /\ pc = "error" /\ err = RegistryNotEnabled
    /\ "p_newer" \in keys /\ "p_older" \notin keys
    /\ N >= 1 /\ out = <<>>

\* C10: with no selected thread 'chibios thread' prints the no-thread message
\* and extracts nothing: no header, no object, no read of the target; with
\* a selected thread it extracts one snapshot, of the Thread at the selected
\* thread's identifier, and reads no registry link.
C10_SelectedThreadOnly ==
    pc # "start" =>
        IF selected = None
        THEN /\ pc = "done"
             /\ out = <<NoThreadsFound>>
             /\ threads = <<>>
             /\ reads = {}
        ELSE /\ out[1] = THREAD_INFO_HEADER_FORMAT
             /\ Len(Rows) <= 1
             /\ \A r \in reads : r[1] = selected /\ r[2] \notin LinkKeys
             /\ selected \in DOMAIN mem => (Len(threads) = 1 /\ threads[1].address = selected)
             /\ selected \notin DOMAIN mem => (threads = <<>> /\ pc = "error")
             /\ pc = "done" => (Len(Rows) = 1 /\ Rows[1].row[1].address = selected)
             /\ newer = rlist

C10_Witness == pc = "done" /\ selected = None /\ out = <<NoThreadsFound>>

====
